---- MODULE Spec2Model ----
(***************************************************************************)
(* vadcondense: the batch orchestrator App.CondenseFiles (app.go) and the  *)
(* per-file pipeline vad.CondenseWithOptions (internal/vad).               *)
(*                                                                         *)
(* Time values returned by the speech detector are float64 seconds.  The   *)
(* model counts them in ticks of 1/256 s: every k/256 is exactly           *)
(* representable in binary floating point, so the "%.2f" conversion of the *)
(* code is the exact round-half-to-even of 25*k/64 hundredths, which       *)
(* FormatF2 computes, with the minus sign "%.2f" writes for every negative *)
(* value (FormatMinus).  Serialized boundaries are integers in hundredths  *)
(* of a second, frame times are in milliseconds.                           *)
(***************************************************************************)
EXTENDS Integers, Sequences, FiniteSets, TLC

VARIABLES
    pc,               \* position of the single goroutine running the batch
    filePaths,        \* CondenseFiles: the filePaths argument
    options,          \* CondenseFiles: the options argument
    callbacks,        \* CondenseWithOptions: statusCallback and progressCallback,
                      \* each "nil" or "fn"
    i,                \* CondenseFiles: 1-based index of the range loop
    trace,            \* history: events emitted and external calls made, in order
    err,              \* the error value CondenseWithOptions returns / has in hand
    samples,          \* CondenseWithOptions: len(samples) after decode
    sd,               \* CondenseWithOptions: the detector ("none", "live", "destroyed")
    segments,         \* CondenseWithOptions: the detector's result
    cuts,             \* CondenseWithOptions: one between-term per segment
    af,               \* CondenseWithOptions: the compiled -af filter expression
    outName,          \* CondenseWithOptions: the destination path
    logger,           \* the process default logger (slog.Default())
    originalDefault,  \* CondenseWithOptions: the saved default logger
    inv,              \* two goroutines that each call CondenseWithOptions once:
                      \* position, saved logger, detector result, log output lost
    ui                \* the frontend: React state (files, isProcessing), the
                      \* values of the last render, CondenseFiles calls pending

vars == <<pc, filePaths, options, callbacks, i, trace, err, samples, sd, segments, cuts,
          af, outName, logger, originalDefault, inv, ui>>

(***************************************************************************)
(* Bounds                                                                  *)
(***************************************************************************)
MaxJobs == 3
MaxSegs == 2
MaxTick == 2
MaxFiles == 2
MaxDialogs == 1

sampleRate == 16000

\* the samples of a sixteenth of a second
SixteenthSamples == sampleRate \div 16

(***************************************************************************)
(* Input domains                                                           *)
(***************************************************************************)
Paths == {"/a/b/song.wav", "/c/talk.mp3"}

SeqsUpTo(S, n) == UNION {[1..k -> S] : k \in 0..n}

\* the times the detector can return, in ticks: -1/16 s, a value that
\* "%.2f" rounds to zero from below, and the sixteenths of a second from 0
Ticks == {0 - 16, 0 - 1} \cup {16 * k : k \in 0..MaxTick}

Segment(s, e) == [SpeechStartAt |-> s, SpeechEndAt |-> e]

Segments == {Segment(s, e) : s \in Ticks, e \in Ticks}

\* every result the detector can hand back within the bounds
SegLists == SeqsUpTo(Segments, MaxSegs)

\* the detector results of the batch specification: none, one, two out of order
BatchSegLists ==
    {<<>>, <<Segment(0, 32)>>, <<Segment(16, 32), Segment(0, 16)>>}

\* the decoded buffer is an eighth of a second long
SampleCounts == {2 * SixteenthSamples}

\* the buffer of the one-file specification is 1/16 s long: the detector's
\* results reach beyond it on both sides
PipeSampleCounts == {SixteenthSamples}

\* what the external tools report when they fail
DecodeFailures ==
    {[err |-> "exit status 1", stderr |-> "song.wav: No such file or directory"],
     [err |-> "exec: \"ffmpeg\": executable file not found in $PATH", stderr |-> ""]}

NewDetectorFailures == {"failed to create session"}

DetectFailures == {"failed to infer"}

EncodeFailures ==
    {[err |-> "exit status 1", output |-> "Conversion failed!"],
     [err |-> "exit status 234", output |-> ""]}

(***************************************************************************)
(* Go values                                                               *)
(***************************************************************************)
\* the nil error, and the error fmt.Errorf builds
Nil == [isNil |-> TRUE, text |-> ""]

Errorf(text) == [isNil |-> FALSE, text |-> text]

\* the two loggers the process default can be: the one main installed, and
\* slog.New(slog.NewTextHandler(io.Discard, nil))
MainLogger == "stderr"

DiscardLogger == "discard"

(***************************************************************************)
(* History: one entry per event emitted (runtime.EventsEmit of a           *)
(* CondenseProgress) and per external call made, in program order.         *)
(* For an event, path/what/text are the FilePath, Status and Error fields  *)
(* of the CondenseProgress; for a call, what is the callee.  job is the    *)
(* loop index the entry was made under; it is not part of the emitted      *)
(* value.                                                                  *)
(***************************************************************************)
CondenseProgress(filePath, status, errMsg) ==
    [kind |-> "event", job |-> i, path |-> filePath, what |-> status,
     res |-> "", text |-> errMsg, out |-> ""]

\* an external call: res is "ok", "err" or (Detect only) "empty"; text is
\* the message of the error it returned, out what the tool printed
Call(name, result, message, output) ==
    [kind |-> "call", job |-> i, path |-> filePaths[i], what |-> name,
     res |-> result, text |-> message, out |-> output]

\* runtime.EventsEmit(a.ctx, "condense:progress", progress)
EventsEmit(progress) == Append(trace, progress)

\* variant: the closure sees the last element of the range, not its own
statusCallback_LastPath(status) ==
    EventsEmit(CondenseProgress(filePaths[Len(filePaths)], status, ""))

\* the statusCallback closure CondenseFiles hands to CondenseWithOptions
statusCallback(status) ==
    EventsEmit(CondenseProgress(filePaths[i], status, ""))

\* variant: a nil statusCallback is called as it is
notify_NoGuard(status) ==
    IF callbacks.status = "nil"
    THEN Append(trace, [kind |-> "call", job |-> i, path |-> filePaths[i],
                        what |-> "nil func", res |-> "panic", text |-> "",
                        out |-> ""])
    ELSE statusCallback(status)

\* variant: the notification is dropped
notify_Silent(status) == trace

\* statusCallback(status) inside CondenseWithOptions: a nil argument has
\* been replaced by func(string) {}
notify(status) ==
    IF callbacks.status = "nil" THEN trace ELSE statusCallback(status)

\* the detector reports progress through ProgressCallback: a nil argument
\* has been replaced by func(float64) {}
progressCallback(t) ==
    IF callbacks.progress = "nil" THEN t
    ELSE Append(t, [kind |-> "event", job |-> i, path |-> filePaths[i],
                    what |-> "progress", res |-> "", text |-> "", out |-> ""])

(***************************************************************************)
(* decodeToFloat32: cmd.Run returned e with stderrText on stderr.  (The    *)
(* sample-parsing loop reads 4*numSamples <= len(data) bytes from a        *)
(* bytes.Reader and cannot fail.)                                          *)
(***************************************************************************)
decodeToFloat32(e, stderrText) ==
    IF ~e.isNil
    THEN Errorf("ffmpeg decode error: " \o e.text \o ", stderr: " \o stderrText)
    ELSE Nil

(***************************************************************************)
(* fmt.Sprintf("%.2f", x) for x = k/16: the decimal with two fraction      *)
(* digits nearest to x, ties to even, as an integer count of hundredths.   *)
(***************************************************************************)
RoundHalfEven(n, d) ==
    LET q == n \div d
        r == n % d
    IN  IF 2 * r < d THEN q
        ELSE IF 2 * r > d THEN q + 1
        ELSE IF q % 2 = 0 THEN q ELSE q + 1

\* variant: one fraction digit, "%.1f"
FormatF2_OneDecimal(k) ==
    IF k >= 0 THEN 10 * RoundHalfEven(25 * k, 640)
    ELSE 0 - 10 * RoundHalfEven(25 * (0 - k), 640)

\* "%.2f" of k/256: the value of the digits written, in hundredths
FormatF2(k) ==
    IF k >= 0 THEN RoundHalfEven(25 * k, 64)
    ELSE 0 - RoundHalfEven(25 * (0 - k), 64)

\* "%.2f" of k/256 starts with "-" for every negative value, also when the
\* digits round to zero ("-0.00")
FormatMinus(k) == k < 0

(***************************************************************************)
(* The filter expression.  A term stands for the text                      *)
(* "between(t,<lo>,<hi>)"; the expression for                              *)
(* "aselect='<terms joined by op>',asetpts=N/SR/TB".                       *)
(***************************************************************************)
\* fmt.Sprintf("between(t,%.2f,%.2f)", s.SpeechStartAt, s.SpeechEndAt)
betweenTerm(s) ==
    [fn |-> "between",
     lo |-> FormatF2(s.SpeechStartAt), loMinus |-> FormatMinus(s.SpeechStartAt),
     hi |-> FormatF2(s.SpeechEndAt), hiMinus |-> FormatMinus(s.SpeechEndAt)]

\* variant: a segment that starts before the one before it ends is left out
makeCuts_SkipOverlap(segs) ==
    LET idx  == [n \in 1..Len(segs) |-> n]
        kept == SelectSeq(idx, LAMBDA n :
                    n = 1 \/ segs[n].SpeechStartAt >= segs[n - 1].SpeechEndAt)
    IN  [m \in 1..Len(kept) |-> betweenTerm(segs[kept[m]])]

\* variant: the boundaries count from the start of the batch, a second
\* being added for every file before this one
makeCuts_BatchOffsets(segs) ==
    [n \in 1..Len(segs) |->
        [betweenTerm(segs[n]) EXCEPT !.lo = @ + 100 * (i - 1),
                                     !.hi = @ + 100 * (i - 1)]]

\* the loop filling cuts
makeCuts(segs) == [n \in 1..Len(segs) |-> betweenTerm(segs[n])]

\* variant: the terms are joined by "*"
makeFilter_Product(terms) ==
    [aselect |-> terms, join |-> "*", chain |-> "asetpts=N/SR/TB"]

\* fmt.Sprintf("aselect='%s',asetpts=N/SR/TB", strings.Join(cuts, "+"))
makeFilter(terms) ==
    [aselect |-> terms, join |-> "+", chain |-> "asetpts=N/SR/TB"]

NoFilter == [aselect |-> <<>>, join |-> "", chain |-> ""]

(***************************************************************************)
(* Paths.  A path string is read as its sequence of tokens: "/", "." and   *)
(* the pieces between them, so that "/a/b/song.wav" is                     *)
(* <<"/", "a", "/", "b", "/", "song", ".", "wav">>.  The functions of      *)
(* path/filepath look at separators and dots only, so they do on tokens    *)
(* what they do on bytes.                                                  *)
(***************************************************************************)
Last(q) == q[Len(q)]

Front(q) == SubSeq(q, 1, Len(q) - 1)

\* Each operator below binds its argument to its value once, by drawing it
\* from a one-element set, before it looks at it.
RECURSIVE Text(_)
Text(tokens) ==
    CHOOSE str \in {IF p = <<>> THEN "" ELSE p[1] \o Text(Tail(p)) :
                       p \in {tokens}} : TRUE

\* the input files the path specification draws from
PathShapes ==
    {<<"/", "a", "/", "b", "/", "song", ".", "wav">>,
     <<"/", "c", "/", "talk", ".", "mp3">>,
     <<"song", ".", "wav">>,
     <<"/", "song", ".", "tar", ".", "gz">>,
     <<"/", "a", "/", ".", "hidden">>,
     <<"d", ".", "v", "/", "noext">>}

\* the output directories, suffixes and formats it draws from
DirShapes ==
    {<<>>, <<"/", "out">>, <<"out", "/">>, <<".">>, <<"/", "a", "/", ".", ".", "/", "out">>}

SuffixShapes == {<<>>, <<"_condensed">>, <<"_c">>}

FormatShapes == {<<"mp3">>, <<"wav">>}

\* a suffix with separators in it, and a second input named like the first
SeparatorSuffixShapes == {<<"/", ".", ".", "/", "song">>}

SameStemShapes == {<<"/", "a", "/", "b", "/", "song", ".", "mp3">>}

KnownShapes ==
    PathShapes \cup DirShapes \cup SuffixShapes \cup FormatShapes
        \cup SeparatorSuffixShapes \cup SameStemShapes

\* the tokens of a string
Tok(str) == CHOOSE p \in KnownShapes : Text(p) = str

MaxOf(S) == CHOOSE x \in S : \A y \in S : y <= x

\* index of the last separator, 0 when there is none
LastSlash(p) ==
    LET at == {n \in 1..Len(p) : p[n] = "/"}
    IN  IF at = {} THEN 0 ELSE MaxOf(at)

\* variant: the extension starts at the first dot of the last element
Ext_FromFirstDot(p) ==
    LET dots == {n \in 1..Len(p) : p[n] = "." /\ n > LastSlash(p)}
    IN  IF dots = {} THEN <<>>
        ELSE SubSeq(p, CHOOSE n \in dots : \A m \in dots : n <= m, Len(p))

\* filepath.Ext: from the last dot of the last element, empty without one
Ext(p) ==
    LET dots == {n \in 1..Len(p) : p[n] = "." /\ n > LastSlash(p)}
    IN  IF dots = {} THEN <<>> ELSE SubSeq(p, MaxOf(dots), Len(p))

\* filepath.Base: the last element, trailing separators removed
Base(p) ==
    IF p = <<>> THEN <<".">>
    ELSE LET names == {n \in 1..Len(p) : p[n] # "/"}
         IN  IF names = {} THEN <<"/">>
             ELSE LET q == SubSeq(p, 1, MaxOf(names))
                  IN  SubSeq(q, LastSlash(q) + 1, Len(q))

\* the elements between the separators, in order
RECURSIVE Elements(_)
Elements(path) ==
    CHOOSE els \in
        {IF LastSlash(p) = 0 THEN <<p>>
         ELSE Append(Elements(SubSeq(p, 1, LastSlash(p) - 1)),
                     SubSeq(p, LastSlash(p) + 1, Len(p))) : p \in {path}} : TRUE

\* filepath.Clean, the elements kept: empty ones and "." go, ".." takes the
\* element before it away, stays when there is none to take and the path is
\* not rooted, goes when the path is rooted
\* one element e after the kept elements before
CleanStep(before, e, rooted) ==
    IF e = <<>> \/ e = <<".">> THEN before
    ELSE IF e = <<".", ".">>
    THEN IF before # <<>> /\ Last(before) # <<".", ".">>
         THEN Front(before)
         ELSE IF rooted THEN before ELSE Append(before, e)
    ELSE Append(before, e)

RECURSIVE CleanElements(_, _)
CleanElements(elements, rooted) ==
    CHOOSE kept \in
        {IF els = <<>> THEN <<>>
         ELSE CHOOSE r \in {CleanStep(before, Last(els), rooted) :
                               before \in {CleanElements(Front(els), rooted)}} :
                  TRUE : els \in {elements}} : TRUE

RECURSIVE JoinElements(_)
JoinElements(elements) ==
    CHOOSE p \in
        {IF els = <<>> THEN <<>>
         ELSE IF Len(els) = 1 THEN els[1]
         ELSE JoinElements(Front(els)) \o <<"/">> \o Last(els) :
            els \in {elements}} : TRUE

\* filepath.Clean
Clean(path) ==
    CHOOSE c \in
        {IF p = <<>> THEN <<".">>
         ELSE CHOOSE r \in
                 {IF p[1] = "/" THEN <<"/">> \o kept
                  ELSE IF kept = <<>> THEN <<".">> ELSE kept :
                     kept \in {JoinElements(
                                  CleanElements(Elements(p), p[1] = "/"))}} :
                 TRUE : p \in {path}} : TRUE

\* filepath.Dir: all but the last element, cleaned
Dir(p) == Clean(SubSeq(p, 1, LastSlash(p)))

\* filepath.Join of two elements
Join(a, b) ==
    IF a # <<>> THEN Clean(a \o <<"/">> \o b)
    ELSE IF b # <<>> THEN Clean(b)
    ELSE <<>>

\* strings.TrimSuffix
TrimSuffix(p, suffix) ==
    IF /\ Len(suffix) <= Len(p)
       /\ SubSeq(p, Len(p) - Len(suffix) + 1, Len(p)) = suffix
    THEN SubSeq(p, 1, Len(p) - Len(suffix))
    ELSE p

\* the name handed to filepath.Join
joined(in, dir, outSuffix, outFormat) ==
    LET ext      == Ext(in)
        baseName == Base(in)
    IN  Text(Join(dir, TrimSuffix(baseName, ext) \o Tok(outSuffix)
                         \o <<".">> \o Tok(outFormat)))

\* CondenseWithOptions: ext, baseName, inDir, the default of outDir, outName
resolveOutName(inFile, outDir, outSuffix, outFormat) ==
    CHOOSE name \in
        {joined(in, IF outDir = "" THEN Dir(in) ELSE Tok(outDir),
                outSuffix, outFormat) : in \in {Tok(inFile)}} : TRUE

\* CondenseOptions, the three fields that name the destination
CondenseOptions(outputDir, outputSuffix, outputFormat) ==
    [OutputDir |-> outputDir, OutputSuffix |-> outputSuffix,
     OutputFormat |-> outputFormat]

NoOptions == CondenseOptions("", "", "")

\* the options of the batch and one-file specifications
BatchOptions == {CondenseOptions("", "_condensed", "mp3")}

\* the options of the two-file specification
TwoOptions ==
    {CondenseOptions("", "_condensed", "mp3"), CondenseOptions("/out", "_c", "wav")}

\* the options of the suffix specification: the suffix is never empty
SuffixOptions ==
    {CondenseOptions(d, Text(x), Text(f)) :
        d \in {"", "/out"}, x \in {<<"_c">>} \cup SeparatorSuffixShapes,
        f \in FormatShapes}

\* two inputs of one directory that differ in their extension only
StemPaths == {"/a/b/song.wav"} \cup {Text(p) : p \in SameStemShapes}

\* the options of the path specification
PathOptions ==
    {CondenseOptions(Text(d), Text(x), Text(f)) :
        d \in DirShapes, x \in SuffixShapes, f \in FormatShapes}

\* the two callback arguments of CondenseWithOptions
Callbacks(status, progress) == [status |-> status, progress |-> progress]

NoCallbacks == Callbacks("nil", "nil")

\* what CondenseFiles passes: its closure, and nil for progressCallback
AppCallbacks == Callbacks("fn", "nil")

\* what a caller of the exported function can pass
AnyCallbacks == {Callbacks(st, pr) : st \in {"nil", "fn"}, pr \in {"nil", "fn"}}

\* useState<FileItem[]>([]) and useState(false)
NoFiles == [files |-> <<>>, isProcessing |-> FALSE]

\* the statuses of the progress events looked at, out of pending, loading,
\* detecting, exporting, completed and error: one of a job under way and
\* one of a job that has ended
ProgressStatuses == {"loading", "completed"}

\* the goroutines of the concurrent specification
Goroutines == {"A", "B"}

(***************************************************************************)
(* Initial state: the application has started, main has installed its      *)
(* logger, no batch has been requested.                                    *)
(***************************************************************************)
Init ==
    /\ pc = "idle"
    /\ filePaths = <<>>
    /\ options = NoOptions
    /\ callbacks = NoCallbacks
    /\ i = 0
    /\ trace = <<>>
    /\ err = Nil
    /\ samples = 0
    /\ sd = "none"
    /\ segments = <<>>
    /\ cuts = <<>>
    /\ af = NoFilter
    /\ outName = ""
    /\ logger = MainLogger
    /\ originalDefault = MainLogger
    /\ inv = [g \in Goroutines |->
                 [pc |-> "idle", originalDefault |-> "unset", result |-> "",
                  discarded |-> FALSE]]
    /\ ui = [state |-> NoFiles, view |-> NoFiles, calls |-> 0,
             dialogs |-> <<>>]

\* the locals of CondenseWithOptions go out of scope when it returns
locals == <<samples, sd, segments, cuts, af, outName, originalDefault>>

(***************************************************************************)
(* App.CondenseFiles                                                       *)
(***************************************************************************)
\* the call: the range loop starts at the first element
CondenseFiles(lists, settings) ==
    /\ pc = "idle"
    /\ \E fps \in lists, o \in settings :
          /\ filePaths' = fps
          /\ options' = o
    /\ i' = 1
    /\ pc' = "range"
    /\ UNCHANGED <<ui, inv, callbacks, trace, err, logger, locals>>

\* variant: the range stops one element early
rangeDone_OffByOne == i >= Len(filePaths)

\* the range over filePaths has no element left
rangeDone == i > Len(filePaths)

\* one iteration starts: the pending event, then the call of
\* CondenseWithOptions
EmitPending ==
    /\ pc = "range"
    /\ ~rangeDone
    /\ trace' = EventsEmit(CondenseProgress(filePaths[i], "pending", ""))
    /\ callbacks' = AppCallbacks
    /\ pc' = "loading"
    /\ UNCHANGED <<ui, inv, filePaths, options, i, err, logger, locals>>

\* variant: a failed file is tried again
NextIteration_Retry == IF err.isNil THEN i + 1 ELSE i

\* variant: a failed file ends the batch
NextIteration_Abort == IF err.isNil THEN i + 1 ELSE Len(filePaths) + 1

\* the range loop moves on to the next element whatever err was
NextIteration == i + 1

\* status := "completed"; errMsg := ""; if err != nil { status = "error"; ... }
completionEvent(e) ==
    IF ~e.isNil
    THEN CondenseProgress(filePaths[i], "error", e.text)
    ELSE CondenseProgress(filePaths[i], "completed", "")

\* after CondenseWithOptions has returned: the completion event of the file
EmitTerminal ==
    /\ pc = "emit"
    /\ trace' = EventsEmit(completionEvent(err))
    /\ i' = NextIteration
    /\ pc' = "range"
    /\ err' = Nil
    /\ samples' = 0
    /\ sd' = "none"
    /\ segments' = <<>>
    /\ cuts' = <<>>
    /\ af' = NoFilter
    /\ outName' = ""
    /\ callbacks' = NoCallbacks
    /\ UNCHANGED <<ui, inv, filePaths, options, logger, originalDefault>>

\* the range is exhausted: CondenseFiles returns (it has no result)
Return ==
    /\ pc = "range"
    /\ rangeDone
    /\ pc' = "returned"
    /\ UNCHANGED <<ui, inv, callbacks, filePaths, options, i, trace, err,
                   logger, locals>>

(***************************************************************************)
(* vad.CondenseWithOptions.  Each after... operator is the code that       *)
(* follows an external call: where control goes ("emit" is the return to   *)
(* CondenseFiles) and the error value in hand.                             *)
(***************************************************************************)
\* variant: the decode error is not checked
afterDecode_FallThrough(e) == [pc |-> "detecting", err |-> Nil]

afterDecode(e) ==
    IF ~e.isNil
    THEN [pc |-> "emit", err |-> Errorf("failed to decode audio file: " \o e.text)]
    ELSE [pc |-> "detecting", err |-> Nil]

afterNewDetector(e) ==
    IF ~e.isNil
    THEN [pc |-> "emit", err |-> Errorf("failed to create speech detector: " \o e.text)]
    ELSE [pc |-> "silence", err |-> Nil]

\* variant: an empty result is not checked
afterDetect_NoEmptyCheck(e, segs) ==
    IF ~e.isNil
    THEN [pc |-> "emit", err |-> Errorf("speech detection failed: " \o e.text)]
    ELSE [pc |-> "compile", err |-> Nil]

afterDetect(e, segs) ==
    IF ~e.isNil
    THEN [pc |-> "emit", err |-> Errorf("speech detection failed: " \o e.text)]
    ELSE IF Len(segs) = 0
    THEN [pc |-> "emit", err |-> Errorf("no speech detected in file: " \o filePaths[i])]
    ELSE [pc |-> "compile", err |-> Nil]

\* variant: the encoder's error is dropped
afterEncode_IgnoreError(e, output) == [pc |-> "emit", err |-> Nil]

\* variant: the encoder's output is left out of the message
afterEncode_NoOutput(e, output) ==
    IF ~e.isNil
    THEN [pc |-> "emit", err |-> Errorf("ffmpeg error: " \o e.text)]
    ELSE [pc |-> "emit", err |-> Nil]

\* variant: a failed encode is run again
afterEncode_Retry(e, output) ==
    IF ~e.isNil
    THEN [pc |-> "encode", err |-> Nil]
    ELSE [pc |-> "emit", err |-> Nil]

afterEncode(e, output) ==
    IF ~e.isNil
    THEN [pc |-> "emit",
          err |-> Errorf("ffmpeg error: " \o e.text \o ", output: " \o output)]
    ELSE [pc |-> "emit", err |-> Nil]

\* variant: the detector is never destroyed
deferred_Never(t, nextPc) == t

\* defer sd.Destroy(): runs when CondenseWithOptions returns with a detector
deferred(t, nextPc) ==
    IF nextPc = "emit" THEN Append(t, Call("Destroy", "ok", "", "")) ELSE t

\* statusCallback("loading")
StatusLoading ==
    /\ pc = "loading"
    /\ trace' = notify("loading")
    /\ pc' = "decode"
    /\ UNCHANGED <<ui, inv, callbacks, filePaths, options, i, err, logger,
                   locals>>

\* samples, err := decodeToFloat32(inFile, sampleRate)
Decode(counts) ==
    /\ pc = "decode"
    /\ \E r \in {[e |-> Errorf(f.err), stderr |-> f.stderr, n |-> 0] :
                    f \in DecodeFailures}
                \cup {[e |-> Nil, stderr |-> "", n |-> n] : n \in counts} :
          LET ret  == decodeToFloat32(r.e, r.stderr)
              then == afterDecode(ret)
          IN  /\ trace' = Append(trace,
                     Call("decode", IF r.e.isNil THEN "ok" ELSE "err",
                          r.e.text, r.stderr))
              /\ samples' = r.n
              /\ err' = then.err
              /\ pc' = then.pc
    /\ UNCHANGED <<ui, inv, callbacks, filePaths, options, i, logger, sd,
                   segments, cuts, af, outName, originalDefault>>

\* statusCallback("detecting")
StatusDetecting ==
    /\ pc = "detecting"
    /\ trace' = notify("detecting")
    /\ pc' = "newdetector"
    /\ UNCHANGED <<ui, inv, callbacks, filePaths, options, i, err, logger,
                   locals>>

\* sd, err := speech.NewDetector(...); defer sd.Destroy()
NewDetector ==
    /\ pc = "newdetector"
    /\ \E e \in {Errorf(m) : m \in NewDetectorFailures} \cup {Nil} :
          LET then == afterNewDetector(e)
          IN  /\ trace' = Append(trace,
                     Call("NewDetector", IF e.isNil THEN "ok" ELSE "err", e.text, ""))
              /\ sd' = IF e.isNil THEN "live" ELSE "none"
              /\ err' = then.err
              /\ pc' = then.pc
    /\ UNCHANGED <<ui, inv, callbacks, filePaths, options, i, logger, samples,
                   segments, cuts, af, outName, originalDefault>>

\* originalDefault := slog.Default(); slog.SetDefault(discard); sd.Detect is
\* entered
SilenceLogger ==
    /\ pc = "silence"
    /\ originalDefault' = logger
    /\ logger' = DiscardLogger
    /\ pc' = "detect"
    /\ UNCHANGED <<ui, inv, callbacks, filePaths, options, i, trace, err,
                   samples, sd, segments, cuts, af, outName>>

\* variant: the default logger is left as it is
restoreDefault_Skip == logger

\* slog.SetDefault(originalDefault), before err is looked at
restoreDefault == originalDefault

\* sd.Detect returns; slog.SetDefault(originalDefault); the two checks
Detect(results) ==
    /\ pc = "detect"
    /\ logger' = restoreDefault
    /\ \E r \in {[e |-> Errorf(m), segs |-> <<>>] : m \in DetectFailures}
                \cup {[e |-> Nil, segs |-> segs] : segs \in results} :
          LET then == afterDetect(r.e, r.segs)
              res  == IF ~r.e.isNil THEN "err"
                      ELSE IF Len(r.segs) = 0 THEN "empty" ELSE "ok"
          IN  /\ trace' = deferred(Append(progressCallback(trace),
                                          Call("Detect", res, r.e.text, "")),
                                   then.pc)
              /\ segments' = r.segs
              /\ sd' = IF then.pc = "emit" THEN "destroyed" ELSE sd
              /\ err' = then.err
              /\ pc' = then.pc
    /\ UNCHANGED <<ui, inv, callbacks, filePaths, options, i, samples, cuts,
                   af, outName, originalDefault>>

\* cuts, af and outName are built, then statusCallback("exporting")
Compile ==
    /\ pc = "compile"
    /\ cuts' = makeCuts(segments)
    /\ af' = makeFilter(cuts')
    /\ outName' = resolveOutName(filePaths[i], options.OutputDir,
                                 options.OutputSuffix, options.OutputFormat)
    /\ trace' = notify("exporting")
    /\ pc' = "encode"
    /\ UNCHANGED <<ui, inv, callbacks, filePaths, options, i, err, logger,
                   samples, sd, segments, originalDefault>>

\* output, err := cmd.CombinedOutput(); CondenseWithOptions returns
Encode ==
    /\ pc = "encode"
    /\ \E r \in {[e |-> Errorf(f.err), output |-> f.output] : f \in EncodeFailures}
                \cup {[e |-> Nil, output |-> ""]} :
          LET then == afterEncode(r.e, r.output)
          IN  /\ trace' = deferred(Append(trace,
                     Call("encode", IF r.e.isNil THEN "ok" ELSE "err",
                          r.e.text, r.output)), then.pc)
              /\ sd' = IF then.pc = "emit" THEN "destroyed" ELSE sd
              /\ err' = then.err
              /\ pc' = then.pc
    /\ UNCHANGED <<ui, inv, callbacks, filePaths, options, i, logger, samples,
                   segments, cuts, af, outName, originalDefault>>

(***************************************************************************)
(* A caller of the exported vad.CondenseWithOptions other than             *)
(* CondenseFiles: one call per input, the callbacks its own choice.  The   *)
(* history keeps each call's callback arguments and its returned error.    *)
(***************************************************************************)
DirectInputs(lists, settings) ==
    /\ pc = "idle"
    /\ \E fps \in lists, o \in settings :
          /\ filePaths' = fps
          /\ options' = o
    /\ i' = 1
    /\ pc' = "range"
    /\ UNCHANGED <<ui, inv, callbacks, trace, err, logger, locals>>

DirectCall(cbs) ==
    /\ pc = "range"
    /\ ~rangeDone
    /\ \E cb \in cbs :
          /\ callbacks' = cb
          /\ trace' = Append(trace,
                 [kind |-> "invoke", job |-> i, path |-> filePaths[i],
                  what |-> "CondenseWithOptions", res |-> cb.status,
                  text |-> "", out |-> cb.progress])
    /\ pc' = "loading"
    /\ UNCHANGED <<ui, inv, filePaths, options, i, err, logger, locals>>

DirectReturn ==
    /\ pc = "emit"
    /\ trace' = Append(trace,
           [kind |-> "return", job |-> i, path |-> filePaths[i],
            what |-> "CondenseWithOptions",
            res |-> IF err.isNil THEN "nil" ELSE "error", text |-> err.text,
            out |-> ""])
    /\ i' = i + 1
    /\ pc' = "range"
    /\ err' = Nil
    /\ samples' = 0
    /\ sd' = "none"
    /\ segments' = <<>>
    /\ cuts' = <<>>
    /\ af' = NoFilter
    /\ outName' = ""
    /\ callbacks' = NoCallbacks
    /\ UNCHANGED <<ui, inv, filePaths, options, logger, originalDefault>>

(***************************************************************************)
(* The command-line program, cmd/vadcondense-cli: main ranges over the     *)
(* inputs and calls vad.CondenseWithOptions for each with seven options    *)
(* and its progress printer.  That eight-parameter function is not the     *)
(* nine-parameter one of main.go.                                          *)
(***************************************************************************)
\* the progress printer main passes as its last argument
CliProgress == "fn"

\* the vad.CondenseWithOptions the command line is written against takes
\* eight arguments, the last one the progress callback: the pipeline run
\* without a status callback
withoutStatusCallback(progress) == Callbacks("nil", progress)

\* the -t values of the command lines looked at: the default and one that
\* is no number
Thresholds == {"0.3", "abc"}

\* strconv.ParseFloat(thresholdStr, 32) returns no error
ParseFloat(thresholdStr) == thresholdStr \in {"0.3"}

\* len(inputs) == 0: usage and os.Exit(2); a threshold that does not parse:
\* log.Fatalf; else the loop
afterArgs(inputs, thresholdStr) ==
    IF Len(inputs) = 0 THEN "exited"
    ELSE IF ~ParseFloat(thresholdStr) THEN "exited"
    ELSE "range"

CliMain(lists, settings, thresholds) ==
    /\ pc = "idle"
    /\ \E inputs \in lists, o \in settings, thresholdStr \in thresholds :
          /\ filePaths' = inputs
          /\ options' = o
          /\ pc' = afterArgs(inputs, thresholdStr)
    /\ i' = 1
    /\ UNCHANGED <<ui, inv, callbacks, trace, err, logger, locals>>

\* fmt.Printf("(%d/%d) Condensing %s\n", ...); the spinner; the call
CliCall ==
    /\ pc = "range"
    /\ ~rangeDone
    /\ LET cb == withoutStatusCallback(CliProgress)
       IN  /\ callbacks' = cb
           /\ trace' = Append(trace,
                  [kind |-> "invoke", job |-> i, path |-> filePaths[i],
                   what |-> "CondenseWithOptions", res |-> cb.status,
                   text |-> "", out |-> cb.progress])
    /\ pc' = "loading"
    /\ UNCHANGED <<ui, inv, filePaths, options, i, err, logger, locals>>

\* if err != nil { log.Fatalf(...) }: the process exits with status 1
afterCondense(e) == IF ~e.isNil THEN "exited" ELSE "range"

\* CondenseWithOptions has returned: log.Fatalf, or "Done!" and the next input
CliReturn ==
    /\ pc = "emit"
    /\ trace' = Append(trace,
           [kind |-> "return", job |-> i, path |-> filePaths[i],
            what |-> "CondenseWithOptions",
            res |-> IF err.isNil THEN "nil" ELSE "error", text |-> err.text,
            out |-> IF err.isNil THEN "Done!" ELSE "Fatalf"])
    /\ pc' = afterCondense(err)
    /\ i' = IF afterCondense(err) = "range" THEN i + 1 ELSE i
    /\ err' = Nil
    /\ samples' = 0
    /\ sd' = "none"
    /\ segments' = <<>>
    /\ cuts' = <<>>
    /\ af' = NoFilter
    /\ outName' = ""
    /\ callbacks' = NoCallbacks
    /\ UNCHANGED <<ui, inv, filePaths, options, logger, originalDefault>>

(***************************************************************************)
(* Two goroutines inside vad.CondenseWithOptions at once, as when the      *)
(* bound method CondenseFiles is called again while a batch is running.    *)
(* The steps are the function's reads and writes of the process default    *)
(* logger and its external calls; every slog call writes through the       *)
(* default logger of the moment it is made.                                *)
(***************************************************************************)
\* the variables of the sequential batch
batch == <<pc, filePaths, options, callbacks, i, trace, err, samples, sd, segments, cuts,
           af, outName, originalDefault>>

\* slog.Debug / Info / Warn by goroutine g: lost when the default discards
slogWrite(g) == inv[g].discarded \/ logger = DiscardLogger

\* the call: slog.Debug("Options", ...), the callbacks' defaults
GoEnter(g) ==
    /\ inv[g].pc = "idle"
    /\ inv' = [inv EXCEPT ![g].pc = "decodeToFloat32",
                          ![g].discarded = slogWrite(g)]
    /\ UNCHANGED <<ui, logger, batch>>

\* decodeToFloat32 up to cmd.Run(): slog.Debug("Decoding audio file")
GoDecodeStart(g) ==
    /\ inv[g].pc = "decodeToFloat32"
    /\ inv' = [inv EXCEPT ![g].pc = "decode", ![g].discarded = slogWrite(g)]
    /\ UNCHANGED <<ui, logger, batch>>

\* cmd.Run() has returned: return on error, else slog.Debug("Audio decoded")
GoDecode(g) ==
    /\ inv[g].pc = "decode"
    /\ \/ inv' = [inv EXCEPT ![g].pc = "newdetector",
                              ![g].discarded = slogWrite(g)]
       \/ inv' = [inv EXCEPT ![g].pc = "returned"]
    /\ UNCHANGED <<ui, logger, batch>>

\* speech.NewDetector: return on error, else slog.Info("Detecting speech
\* segments")
GoNewDetector(g) ==
    /\ inv[g].pc = "newdetector"
    /\ \/ inv' = [inv EXCEPT ![g].pc = "save", ![g].discarded = slogWrite(g)]
       \/ inv' = [inv EXCEPT ![g].pc = "returned"]
    /\ UNCHANGED <<ui, logger, batch>>

\* originalDefault := slog.Default()
GoSave(g) ==
    /\ inv[g].pc = "save"
    /\ inv' = [inv EXCEPT ![g].pc = "replace", ![g].originalDefault = logger]
    /\ UNCHANGED <<ui, logger, batch>>

\* slog.SetDefault(slog.New(slog.NewTextHandler(io.Discard, nil)))
GoReplace(g) ==
    /\ inv[g].pc = "replace"
    /\ logger' = DiscardLogger
    /\ inv' = [inv EXCEPT ![g].pc = "detect"]
    /\ UNCHANGED <<ui, batch>>

\* segments, err := sd.Detect(samples)
GoDetect(g) ==
    /\ inv[g].pc = "detect"
    /\ \E r \in {"err", "empty", "ok"} :
          inv' = [inv EXCEPT ![g].pc = "restore", ![g].result = r]
    /\ UNCHANGED <<ui, logger, batch>>

\* slog.SetDefault(originalDefault)
restored(g) == inv[g].originalDefault

GoRestore(g) ==
    /\ inv[g].pc = "restore"
    /\ logger' = restored(g)
    /\ inv' = [inv EXCEPT ![g].pc = "checks"]
    /\ UNCHANGED <<ui, batch>>

\* the two checks: return on error, slog.Warn("No speech detected") and
\* return, or slog.Debug("Speech segments detected") and the filter
GoChecks(g) ==
    /\ inv[g].pc = "checks"
    /\ inv' = [inv EXCEPT
                 ![g].pc = IF inv[g].result = "ok" THEN "outName" ELSE "returned",
                 ![g].discarded = IF inv[g].result = "err" THEN inv[g].discarded
                                  ELSE slogWrite(g)]
    /\ UNCHANGED <<ui, logger, batch>>

\* outName, slog.Debug("Creating output file"), the ffmpeg command started
GoOutName(g) ==
    /\ inv[g].pc = "outName"
    /\ inv' = [inv EXCEPT ![g].pc = "encode", ![g].discarded = slogWrite(g)]
    /\ UNCHANGED <<ui, logger, batch>>

\* cmd.CombinedOutput() has returned: return on error, else
\* slog.Info("File processed successfully") and return
GoEncode(g) ==
    /\ inv[g].pc = "encode"
    /\ \/ inv' = [inv EXCEPT ![g].pc = "returned", ![g].discarded = slogWrite(g)]
       \/ inv' = [inv EXCEPT ![g].pc = "returned"]
    /\ UNCHANGED <<ui, logger, batch>>

(***************************************************************************)
(* The frontend, App.tsx.  ui.state is the React state, ui.view the values *)
(* the handlers and buttons of the last render see, ui.calls the number of *)
(* CondenseFiles promises not yet resolved, ui.dialogs the calls of        *)
(* handleBrowseFiles that have not finished: the paths of the list each    *)
(* closed over, the paths its dialog returned, and the await it is at (0:  *)
(* BrowseFiles(), k: GetFileName of the k-th path returned).               *)
(* A click runs its handler and React commits the updates                  *)
(* the handler made before the next event is dispatched; an update made    *)
(* outside a click (an awaited call resuming, a runtime event) is          *)
(* committed by a later render.                                            *)
(***************************************************************************)
\* { path, name, status: 'pending' }
FileItem(p) == [path |-> p, status |-> "pending"]

\* the paths of a list
PathsOf(files) == {files[n].path : n \in 1..Len(files)}

\* files.some(f => f.path === p)
some(files, p) == \E n \in 1..Len(files) : files[n].path = p

\* the list with every status set to st
withStatus(files, st) ==
    [n \in 1..Len(files) |-> [files[n] EXCEPT !.status = st]]

\* what a file dialog can return: nothing, or paths without repetition
Selections(paths) ==
    {sel \in SeqsUpTo(paths, 2) :
        \A m, n \in 1..Len(sel) : sel[m] = sel[n] => m = n}

\* the selected paths the closure's list does not hold, as new entries
RECURSIVE newFiles(_, _)
newFiles(selectedPaths, closed) ==
    IF selectedPaths = <<>> THEN <<>>
    ELSE LET rest == newFiles(Tail(selectedPaths), closed)
         IN  IF Head(selectedPaths) \in closed THEN rest
             ELSE <<FileItem(Head(selectedPaths))>> \o rest

\* variant: setIsProcessing(true) is left out
handleCondenseUpdates_NoFlag(st) ==
    [st EXCEPT !.files = withStatus(st.files, "pending")]

\* setIsProcessing(true); setFiles(prev => prev.map(... status: 'pending'))
handleCondenseUpdates(st) ==
    [files |-> withStatus(st.files, "pending"), isProcessing |-> TRUE]

\* handleDrop, one dropped file: setFiles(prev => prev.some(...) ? prev :
\* [...prev, item])
UiAddFile(paths) ==
    /\ Len(ui.state.files) < MaxFiles
    /\ \E q \in paths :
          /\ ~some(ui.state.files, q)
          /\ ui' = [ui EXCEPT !.state.files = Append(@, FileItem(q))]
    /\ UNCHANGED <<inv, logger, batch>>

\* a call of handleBrowseFiles waiting for its dialog
Browsing(closed) == [closed |-> closed, selected |-> <<>>, waiting |-> 0]

\* the calls in flight without the d-th
Without(dialogs, d) ==
    SubSeq(dialogs, 1, d - 1) \o SubSeq(dialogs, d + 1, Len(dialogs))

\* a click on "Browse Files" (empty list) or "Add More Files" (not
\* isProcessing): handleBrowseFiles up to await BrowseFiles()
UiClickBrowse ==
    /\ ui.view.files = <<>> \/ ~ui.view.isProcessing
    /\ Len(ui.dialogs) < MaxDialogs
    /\ ui' = [ui EXCEPT
                !.dialogs = Append(@, Browsing(PathsOf(ui.view.files)))]
    /\ UNCHANGED <<inv, logger, batch>>

\* BrowseFiles() resolves: with nothing selected the handler ends, else it
\* goes on to await GetFileName of the first path
UiBrowseReturn(paths) ==
    /\ \E d \in 1..Len(ui.dialogs), selectedPaths \in Selections(paths) :
          /\ ui.dialogs[d].waiting = 0
          /\ ui' = [ui EXCEPT
                      !.dialogs =
                          IF selectedPaths = <<>> THEN Without(@, d)
                          ELSE [@ EXCEPT ![d].selected = selectedPaths,
                                         ![d].waiting = 1]]
    /\ UNCHANGED <<inv, logger, batch>>

\* GetFileName resolves: the handler goes on to the next path, or after the
\* last one appends the paths its render's list does not hold,
\* setFiles(prev => [...prev, ...newFiles])
UiGetFileName ==
    /\ \E d \in 1..Len(ui.dialogs) :
          LET call  == ui.dialogs[d]
              added == newFiles(call.selected, call.closed)
          IN  /\ call.waiting > 0
              /\ IF call.waiting < Len(call.selected)
                 THEN ui' = [ui EXCEPT !.dialogs[d].waiting = @ + 1]
                 ELSE /\ Len(ui.state.files) + Len(added) <= MaxFiles
                      /\ ui' = [ui EXCEPT !.state.files = @ \o added,
                                          !.dialogs = Without(@, d)]
    /\ UNCHANGED <<inv, logger, batch>>

\* React renders the component with the current state
UiRender ==
    /\ ui.view # ui.state
    /\ ui' = [ui EXCEPT !.view = ui.state]
    /\ UNCHANGED <<inv, logger, batch>>

\* a click on "Start Condensing": the button is there when the list is not
\* empty and is disabled while isProcessing; handleCondense up to its await
UiClickCondense ==
    /\ ui.view.files # <<>>
    /\ ~ui.view.isProcessing
    /\ ui.calls < 3
    /\ LET st == handleCondenseUpdates(ui.state)
       IN  ui' = [ui EXCEPT !.state = st, !.view = st, !.calls = @ + 1]
    /\ UNCHANGED <<inv, logger, batch>>

\* the "condense:progress" listener: setFiles(prev => prev.map(...))
UiProgress(paths) ==
    /\ ui.calls > 0
    /\ \E q \in paths, st \in ProgressStatuses :
          /\ some(ui.state.files, q)
          /\ ui' = [ui EXCEPT !.state.files =
                        [n \in 1..Len(@) |->
                            IF @[n].path = q
                            THEN [@[n] EXCEPT !.status = st] ELSE @[n]]]
    /\ UNCHANGED <<inv, logger, batch>>

\* await CondenseFiles(...) resumes: finally { setIsProcessing(false) }
UiResolve ==
    /\ ui.calls > 0
    /\ ui' = [ui EXCEPT !.state.isProcessing = FALSE, !.calls = @ - 1]
    /\ UNCHANGED <<inv, logger, batch>>

\* a click on "Clear List" (disabled while isProcessing): handleClear
UiClickClear ==
    /\ ui.view.files # <<>>
    /\ ~ui.view.isProcessing
    /\ LET st == [ui.state EXCEPT !.files = <<>>]
       IN  ui' = [ui EXCEPT !.state = st, !.view = st]
    /\ UNCHANGED <<inv, logger, batch>>

\* a click on a file's remove button (rendered when not isProcessing):
\* removeFile, setFiles(prev => prev.filter(f => f.path !== path))
UiClickRemove(paths) ==
    /\ ~ui.view.isProcessing
    /\ \E q \in paths :
          /\ some(ui.view.files, q)
          /\ LET st == [ui.state EXCEPT !.files =
                           SelectSeq(@, LAMBDA f : f.path # q)]
             IN  ui' = [ui EXCEPT !.state = st, !.view = st]
    /\ UNCHANGED <<inv, logger, batch>>

(***************************************************************************)
(* Specifications                                                          *)
(***************************************************************************)
\* a batch of up to MaxJobs files
Next ==
    \/ CondenseFiles(SeqsUpTo(Paths, MaxJobs), BatchOptions)
    \/ EmitPending
    \/ StatusLoading
    \/ Decode(SampleCounts)
    \/ StatusDetecting
    \/ NewDetector
    \/ SilenceLogger
    \/ Detect(BatchSegLists)
    \/ Compile
    \/ Encode
    \/ EmitTerminal
    \/ Return

Spec == Init /\ [][Next]_vars

\* every step of the batch is a blocking call that returns
FairSpec == Spec /\ WF_vars(Next)

\* one file, every detector result within the bounds
PipeNext ==
    \/ CondenseFiles(SeqsUpTo(Paths, 1), BatchOptions)
    \/ EmitPending
    \/ StatusLoading
    \/ Decode(PipeSampleCounts)
    \/ StatusDetecting
    \/ NewDetector
    \/ SilenceLogger
    \/ Detect(SegLists)
    \/ Compile
    \/ Encode
    \/ EmitTerminal
    \/ Return

PipeSpec == Init /\ [][PipeNext]_vars

\* one file, every input path and every destination setting of the domains
PathNext ==
    \/ CondenseFiles({<<Text(p)>> : p \in PathShapes}, PathOptions)
    \/ EmitPending
    \/ StatusLoading
    \/ Decode(SampleCounts)
    \/ StatusDetecting
    \/ NewDetector
    \/ SilenceLogger
    \/ Detect(BatchSegLists)
    \/ Compile
    \/ Encode
    \/ EmitTerminal
    \/ Return

PathSpec == Init /\ [][PathNext]_vars

\* two goroutines in CondenseWithOptions, every interleaving of their steps
ConcNext ==
    \E g \in Goroutines :
        \/ GoEnter(g)
        \/ GoDecodeStart(g)
        \/ GoDecode(g)
        \/ GoNewDetector(g)
        \/ GoSave(g)
        \/ GoReplace(g)
        \/ GoDetect(g)
        \/ GoRestore(g)
        \/ GoChecks(g)
        \/ GoOutName(g)
        \/ GoEncode(g)

ConcSpec == Init /\ [][ConcNext]_vars

\* up to two direct calls with any callbacks
DirectNext ==
    \/ DirectInputs(SeqsUpTo(Paths, 2), BatchOptions)
    \/ DirectCall(AnyCallbacks)
    \/ StatusLoading
    \/ Decode(SampleCounts)
    \/ StatusDetecting
    \/ NewDetector
    \/ SilenceLogger
    \/ Detect(BatchSegLists)
    \/ Compile
    \/ Encode
    \/ DirectReturn
    \/ Return

DirectSpec == Init /\ [][DirectNext]_vars

\* the frontend under every order of clicks, drops, events and renders
UiNext ==
    \/ UiAddFile(Paths)
    \/ UiClickBrowse
    \/ UiBrowseReturn(Paths)
    \/ UiGetFileName
    \/ UiRender
    \/ UiClickCondense
    \/ UiProgress(Paths)
    \/ UiResolve
    \/ UiClickClear
    \/ UiClickRemove(Paths)

UiSpec == Init /\ [][UiNext]_vars

\* one file under a non-empty suffix
SuffixNext ==
    \/ CondenseFiles({<<p>> : p \in Paths}, SuffixOptions)
    \/ EmitPending
    \/ StatusLoading
    \/ Decode(SampleCounts)
    \/ StatusDetecting
    \/ NewDetector
    \/ SilenceLogger
    \/ Detect(BatchSegLists)
    \/ Compile
    \/ Encode
    \/ EmitTerminal
    \/ Return

SuffixSpec == Init /\ [][SuffixNext]_vars

\* up to two files of one directory with the same stem
StemNext ==
    \/ CondenseFiles(SeqsUpTo(StemPaths, 2), BatchOptions)
    \/ EmitPending
    \/ StatusLoading
    \/ Decode(SampleCounts)
    \/ StatusDetecting
    \/ NewDetector
    \/ SilenceLogger
    \/ Detect(BatchSegLists)
    \/ Compile
    \/ Encode
    \/ EmitTerminal
    \/ Return

StemSpec == Init /\ [][StemNext]_vars

\* the command line with up to two inputs
CliNext ==
    \/ CliMain(SeqsUpTo(Paths, 2), BatchOptions, Thresholds)
    \/ CliCall
    \/ StatusLoading
    \/ Decode(SampleCounts)
    \/ StatusDetecting
    \/ NewDetector
    \/ SilenceLogger
    \/ Detect(BatchSegLists)
    \/ Compile
    \/ Encode
    \/ CliReturn
    \/ Return

CliSpec == Init /\ [][CliNext]_vars

\* up to two files under either setting of the options
TwoNext ==
    \/ CondenseFiles(SeqsUpTo(Paths, 2), TwoOptions)
    \/ EmitPending
    \/ StatusLoading
    \/ Decode(SampleCounts)
    \/ StatusDetecting
    \/ NewDetector
    \/ SilenceLogger
    \/ Detect(BatchSegLists)
    \/ Compile
    \/ Encode
    \/ EmitTerminal
    \/ Return

TwoSpec == Init /\ [][TwoNext]_vars

(***************************************************************************)
(* Reading the history                                                     *)
(***************************************************************************)
Jobs == 1..Len(filePaths)

\* the jobs whose iteration has ended
Finished == {j \in Jobs : j < i}

Events == SelectSeq(trace, LAMBDA x : x.kind = "event")

JobEvents(j) == SelectSeq(trace, LAMBDA x : x.kind = "event" /\ x.job = j)

JobCalls(j) == SelectSeq(trace, LAMBDA x : x.kind = "call" /\ x.job = j)

JobStatuses(j) == LET ev == JobEvents(j) IN [n \in 1..Len(ev) |-> ev[n].what]

JobCallNames(j) == LET cs == JobCalls(j) IN [n \in 1..Len(cs) |-> cs[n].what]

IsPrefix(p, q) == Len(p) <= Len(q) /\ SubSeq(q, 1, Len(p)) = p

Terminal == {"completed", "error"}

Stages == <<"loading", "detecting", "exporting">>

\* job j made the call and it ended as res
Called(j, name, res) ==
    \E n \in 1..Len(trace) :
        /\ trace[n].kind = "call"
        /\ trace[n].job = j
        /\ trace[n].what = name
        /\ trace[n].res = res

Made(j, name) ==
    \E n \in 1..Len(trace) :
        trace[n].kind = "call" /\ trace[n].job = j /\ trace[n].what = name

(***************************************************************************)
(* C1. The status events of a job are pending, then a prefix of loading,   *)
(* detecting, exporting, then exactly one of completed and error: nothing  *)
(* is emitted twice, nothing goes back, nothing follows the terminal       *)
(* event, and a job whose iteration has ended has its terminal event.      *)
(***************************************************************************)
\* st is a beginning of such a sequence
Lifecycle(st) ==
    \/ st = <<>>
    \/ /\ st[1] = "pending"
       /\ \/ IsPrefix(Tail(st), Stages)
          \/ /\ Len(st) >= 2
             /\ Last(st) \in Terminal
             /\ IsPrefix(Front(Tail(st)), Stages)

C1_JobLifecycle ==
    \A j \in Jobs :
        LET st == JobStatuses(j)
        IN  /\ Lifecycle(st)
            /\ j \in Finished => st # <<>> /\ Last(st) \in Terminal

\* a batch that has returned with one job completed and one failed at decode
C1_Witness ==
    /\ pc = "returned"
    /\ \E j \in Jobs : JobStatuses(j) =
          <<"pending", "loading", "detecting", "exporting", "completed">>
    /\ \E j \in Jobs : JobStatuses(j) = <<"pending", "loading", "error">>

(***************************************************************************)
(* C2. Jobs run one after the other in list order: the first event is job  *)
(* 1's pending; every later event either continues the job of the event    *)
(* before it, which was not terminal, or is the pending event of the next   *)
(* job and follows the terminal event of the job before; and every event    *)
(* carries the file path of the job it was emitted under.                   *)
(***************************************************************************)
C2_Sequential ==
    \A n \in 1..Len(Events) :
        LET e == Events[n]
        IN  /\ e.job \in Jobs
            /\ e.path = filePaths[e.job]
            /\ n = 1 => e.job = 1 /\ e.what = "pending"
            /\ n > 1 =>
                  LET p == Events[n - 1]
                  IN  \/ /\ e.job = p.job
                         /\ p.what \notin Terminal
                         /\ e.what # "pending"
                      \/ /\ e.job = p.job + 1
                         /\ p.what \in Terminal
                         /\ e.what = "pending"

\* a returned batch whose first two jobs are different files, the first failed
C2_Witness ==
    /\ pc = "returned"
    /\ Len(filePaths) >= 2
    /\ filePaths[1] # filePaths[2]
    /\ Last(JobStatuses(1)) = "error"
    /\ Len(JobEvents(2)) = 5

(***************************************************************************)
(* C3. A failing job does not abort the batch: a batch that has returned   *)
(* has dispatched every job of the list, and the statuses emitted for a    *)
(* finished job are a function of the results of that job's own external   *)
(* calls, whatever happened to the jobs before it.                         *)
(***************************************************************************)
\* the statuses the results of job j's own calls call for
OwnStatuses(j) ==
    IF Called(j, "decode", "err") THEN <<"pending", "loading", "error">>
    ELSE IF \/ Called(j, "NewDetector", "err")
            \/ Called(j, "Detect", "err")
            \/ Called(j, "Detect", "empty")
    THEN <<"pending", "loading", "detecting", "error">>
    ELSE IF Called(j, "encode", "err")
    THEN <<"pending", "loading", "detecting", "exporting", "error">>
    ELSE <<"pending", "loading", "detecting", "exporting", "completed">>

C3_FailureIsolated ==
    /\ \A j \in Finished : JobStatuses(j) = OwnStatuses(j)
    /\ pc = "returned" => Finished = Jobs

\* three jobs, the second with zero segments, the first and third completed
C3_Witness ==
    /\ pc = "returned"
    /\ Len(filePaths) = 3
    /\ Called(2, "Detect", "empty")
    /\ JobStatuses(2) = <<"pending", "loading", "detecting", "error">>
    /\ Last(JobStatuses(1)) = "completed"
    /\ Last(JobStatuses(3)) = "completed"

(***************************************************************************)
(* C4. With every external call returning, a batch that was started         *)
(* returns, and when it has returned every job of the list has exactly one  *)
(* terminal event, whatever number of them are errors.                      *)
(***************************************************************************)
TerminalCount(j) ==
    LET st == JobStatuses(j)
    IN  Cardinality({n \in 1..Len(st) : st[n] \in Terminal})

BatchDone ==
    /\ pc = "returned"
    /\ \A j \in Jobs : TerminalCount(j) = 1

C4_BatchTerminates == (pc # "idle") ~> BatchDone

\* a returned batch of at least two jobs, all of which ended in error
C4_Witness ==
    /\ BatchDone
    /\ Len(filePaths) >= 2
    /\ \A j \in Jobs : Last(JobStatuses(j)) = "error"

(***************************************************************************)
(* C5. A finished job is completed exactly when its decode, its detector    *)
(* creation, its detection (with at least one segment) and its encode all   *)
(* succeeded, and is error otherwise; a completed event comes after the     *)
(* job's loading, detecting and exporting events.                           *)
(***************************************************************************)
AllSucceeded(j) ==
    /\ Called(j, "decode", "ok")
    /\ Called(j, "NewDetector", "ok")
    /\ Called(j, "Detect", "ok")
    /\ Called(j, "encode", "ok")

C5_CompletedIffAllSucceeded ==
    \A j \in Finished :
        LET st == JobStatuses(j)
            ok == AllSucceeded(j)
        IN  /\ Last(st) = "completed" <=> ok
            /\ Last(st) = "error" <=> ~ok
            /\ Last(st) = "completed" => IsPrefix(<<"pending">> \o Stages, st)

\* one job completed, one failed at encode after everything else succeeded
C5_Witness ==
    /\ \E j \in Finished : AllSucceeded(j) /\ Last(JobStatuses(j)) = "completed"
    /\ \E j \in Finished :
          Called(j, "encode", "err") /\ Last(JobStatuses(j)) = "error"

(***************************************************************************)
(* C6. A job whose detector returned zero segments ends in error with the   *)
(* no-speech message: its events are pending, loading, detecting, error,    *)
(* and no encode call is made for it.                                       *)
(***************************************************************************)
C6_NoSpeechIsError ==
    \A j \in Jobs :
        Called(j, "Detect", "empty") =>
            /\ ~Made(j, "encode")
            /\ IF j \in Finished
               THEN JobStatuses(j) = <<"pending", "loading", "detecting", "error">>
               ELSE JobStatuses(j) = <<"pending", "loading", "detecting">>
            /\ j \in Finished =>
                  Last(JobEvents(j)).text =
                      "no speech detected in file: " \o filePaths[j]

\* a finished job whose detector returned no segment
C6_Witness ==
    \E j \in Finished :
        /\ Called(j, "Detect", "empty")
        /\ Last(JobEvents(j)).text = "no speech detected in file: /c/talk.mp3"

(***************************************************************************)
(* C7. A job whose decode failed goes from loading to error: its events     *)
(* are pending, loading, error, no detector is created, no detection and    *)
(* no encode is run, and the message carries the decode tag.                *)
(***************************************************************************)
DecodeTagged(m) ==
    \E f \in DecodeFailures :
        m = "failed to decode audio file: ffmpeg decode error: " \o f.err
              \o ", stderr: " \o f.stderr

C7_DecodeFailureIsError ==
    \A j \in Jobs :
        Called(j, "decode", "err") =>
            /\ JobCallNames(j) = <<"decode">>
            /\ IF j \in Finished
               THEN JobStatuses(j) = <<"pending", "loading", "error">>
               ELSE JobStatuses(j) = <<"pending", "loading">>
            /\ j \in Finished => DecodeTagged(Last(JobEvents(j)).text)

\* a finished job whose decode failed, followed by a job that got further
C7_Witness ==
    \E j \in Finished :
        /\ Called(j, "decode", "err")
        /\ j + 1 \in Jobs
        /\ Made(j + 1, "NewDetector")

(***************************************************************************)
(* C8. A job's error is reported in its terminal event and nowhere else:    *)
(* an error event has a non-empty message in which the message of the       *)
(* failed call, and what the tool printed, appear; a completed event has    *)
(* an empty error field.                                                    *)
(***************************************************************************)
\* the texts that can stand before and after an underlying message
Heads ==
    {"failed to decode audio file: ffmpeg decode error: ",
     "failed to create speech detector: ", "speech detection failed: ",
     "ffmpeg error: "}
    \cup {"failed to decode audio file: ffmpeg decode error: " \o f.err
            \o ", stderr: " : f \in DecodeFailures}
    \cup {"ffmpeg error: " \o f.err \o ", output: " : f \in EncodeFailures}

Tails ==
    {""} \cup {", stderr: " \o f.stderr : f \in DecodeFailures}
         \cup {", output: " \o f.output : f \in EncodeFailures}

\* u occurs in m
Contains(m, u) ==
    \/ u = ""
    \/ \E a \in Heads, b \in Tails : m = a \o u \o b

C8_ErrorsCaptured ==
    \A j \in Finished :
        LET last == Last(JobEvents(j))
        IN  /\ last.what = "completed" => last.text = ""
            /\ last.what = "error" =>
                  /\ last.text # ""
                  /\ \A n \in 1..Len(trace) :
                        LET c == trace[n]
                        IN  c.kind = "call" /\ c.job = j /\ c.res = "err" =>
                                /\ c.text # ""
                                /\ Contains(last.text, c.text)
                                /\ Contains(last.text, c.out)

\* an encode failure that printed something, reported, and a completed job
C8_Witness ==
    /\ pc = "returned"
    /\ \E j \in Jobs :
          /\ Called(j, "encode", "err")
          /\ Last(JobCalls(j)).what = "Destroy"
          /\ \E n \in 1..Len(JobCalls(j)) : JobCalls(j)[n].out = "Conversion failed!"
          /\ Last(JobEvents(j)).text =
                "ffmpeg error: exit status 1, output: Conversion failed!"
    /\ \E j \in Jobs : Last(JobEvents(j)).what = "completed"

(***************************************************************************)
(* What the encoder makes of a filter expression: between(t,lo,hi) is 1    *)
(* when lo <= t <= hi and 0 otherwise, "+" adds and "*" multiplies, and    *)
(* aselect keeps the frame at time t when the value is not 0.  t is in     *)
(* milliseconds, lo and hi in hundredths of a second.                      *)
(***************************************************************************)
between(t, lo, hi) == IF 10 * lo <= t /\ t <= 10 * hi THEN 1 ELSE 0

RECURSIVE joinValue(_, _, _)
joinValue(terms, op, t) ==
    IF Len(terms) = 1 THEN between(t, terms[1].lo, terms[1].hi)
    ELSE LET rest == joinValue(Front(terms), op, t)
             last == between(t, Last(terms).lo, Last(terms).hi)
         IN  IF op = "+" THEN rest + last ELSE rest * last

Selected(f, t) == joinValue(f.aselect, f.join, t) # 0

\* the frame times looked at: every boundary a term can have, which is a
\* multiple of 10 ms, and a time between each two of them
FrameTimes == {5 * k : k \in 0..(13 * (MaxTick + 1))}

\* CondenseWithOptions has built the filter expression of the current file
Compiled == af # NoFilter

(***************************************************************************)
(* C9. The compiled expression has one inclusive between-term per segment, *)
(* in the order of the segments, with the boundaries at two decimals, and  *)
(* ends with the timestamp renumbering; the frame at time t is kept        *)
(* exactly when t lies in the interval of at least one segment.            *)
(***************************************************************************)
C9_FilterKeepsSegments ==
    Compiled =>
        /\ Len(af.aselect) = Len(segments)
        /\ \A n \in 1..Len(segments) :
              /\ af.aselect[n].fn = "between"
              /\ af.aselect[n].lo = FormatF2(segments[n].SpeechStartAt)
              /\ af.aselect[n].hi = FormatF2(segments[n].SpeechEndAt)
        /\ af.chain = "asetpts=N/SR/TB"
        /\ \A t \in FrameTimes :
              Selected(af, t) <=>
                  \E n \in 1..Len(segments) :
                      /\ 10 * FormatF2(segments[n].SpeechStartAt) <= t
                      /\ t <= 10 * FormatF2(segments[n].SpeechEndAt)

\* two segments apart from each other: frames inside either are kept, the
\* frames between them are not
C9_Witness ==
    /\ Compiled
    /\ Len(segments) = 2
    /\ segments[1].SpeechStartAt < segments[1].SpeechEndAt
    /\ segments[1].SpeechEndAt < segments[2].SpeechStartAt
    /\ Selected(af, 10 * af.aselect[1].lo)
    /\ Selected(af, 10 * af.aselect[2].hi)
    /\ ~Selected(af, 10 * af.aselect[1].hi + 1)

(***************************************************************************)
(* C10                                                                     *)
(***************************************************************************)
\* ascending by start, and each ends no later than the next starts
SortedDisjoint(segs) ==
    \A n \in 1..(Len(segs) - 1) :
        /\ segs[n].SpeechStartAt <= segs[n + 1].SpeechStartAt
        /\ segs[n].SpeechEndAt <= segs[n + 1].SpeechStartAt

\* the segments the terms of the expression stand for, in the terms' order
CompiledFrom(terms) ==
    [n \in 1..Len(terms) |->
        [SpeechStartAt |-> terms[n].lo, SpeechEndAt |-> terms[n].hi]]

\* C10: whatever the detector returned, the segments the expression is
\* compiled from, and the intervals the expression holds, are sorted
\* ascending by start and pairwise non-overlapping
C10_AlwaysSortedDisjoint ==
    Compiled =>
        /\ SortedDisjoint(segments)
        /\ SortedDisjoint(CompiledFrom(af.aselect))

(***************************************************************************)
(* C11. When segments overlap, the time the expression keeps is the union  *)
(* of the segments.  A tick is 125/32 ms, so the frame at t ms lies in the *)
(* segment [s, e] when 125*s <= 32*t <= 125*e.                             *)
(***************************************************************************)
\* two segments of the list share more than a point
Overlapping(segs) ==
    \E m, n \in 1..Len(segs) :
        /\ m < n
        /\ segs[m].SpeechStartAt < segs[n].SpeechEndAt
        /\ segs[n].SpeechStartAt < segs[m].SpeechEndAt

\* t lies in a segment widened by slack 32nds of a millisecond at both
\* ends (narrowed when slack is negative)
InSegments(segs, t, slack) ==
    \E n \in 1..Len(segs) :
        /\ 125 * segs[n].SpeechStartAt - slack <= 32 * t
        /\ 32 * t <= 125 * segs[n].SpeechEndAt + slack

\* C11 as stated: the time kept is exactly the union of the segments
C11_CoverageIsExactUnion ==
    (Compiled /\ Overlapping(segments)) =>
        \A t \in FrameTimes : Selected(af, t) <=> InSegments(segments, t, 0)

\* C11 as amended: the time kept is the union of the segments up to the
\* rounding of each boundary to a hundredth of a second: every time 5 ms or
\* more inside a segment is kept, and no time more than 5 ms outside every
\* segment is kept
C11_CoverageIsUnionUpToRounding ==
    (Compiled /\ Overlapping(segments)) =>
        \A t \in FrameTimes :
            /\ InSegments(segments, t, 0 - 160) => Selected(af, t)
            /\ Selected(af, t) => InSegments(segments, t, 160)

\* two overlapping segments compiled: a time in both is kept once, and
\* rounding has dropped the last 5 ms of the union
C11_Witness ==
    /\ Compiled
    /\ segments = <<Segment(0, 32), Segment(16, 32)>>
    /\ joinValue(af.aselect, af.join, 100) = 2
    /\ Selected(af, 120)
    /\ InSegments(segments, 125, 0)
    /\ ~Selected(af, 125)

(***************************************************************************)
(* C12                                                                     *)
(***************************************************************************)
\* the name of the input without its directory and without its last extension
StemOf(p) ==
    LET name == Last(Elements(p))
        dots == {n \in 1..Len(name) : name[n] = "."}
    IN  IF dots = {} THEN name ELSE SubSeq(name, 1, MaxOf(dots) - 1)

\* {outputDir}/{stem}{outputSuffix}.{outputFormat}, written as a clean path
Destination(inFile, o) ==
    LET in  == Tok(inFile)
        dir == IF o.OutputDir = "" THEN Dir(in) ELSE Tok(o.OutputDir)
    IN  Text(Clean(dir \o <<"/">> \o StemOf(in) \o Tok(o.OutputSuffix)
                       \o <<".">> \o Tok(o.OutputFormat)))

\* C12: the destination path of a job is
\* {outputDir}/{input name without its last extension}{outputSuffix}.{outputFormat}
\* as a lexically clean path, with the input's directory for an empty
\* outputDir; the two examples of the contract come out as written, and of
\* "song.tar.gz" only ".gz" is removed
C12_DestinationPath ==
    outName # "" =>
        /\ outName = Destination(filePaths[i], options)
        /\ (filePaths[i] = "/a/b/song.wav"
              /\ options = CondenseOptions("", "_condensed", "mp3"))
           => outName = "/a/b/song_condensed.mp3"
        /\ (filePaths[i] = "/a/b/song.wav"
              /\ options = CondenseOptions("/out", "_c", "wav"))
           => outName = "/out/song_c.wav"
        /\ (filePaths[i] = "/song.tar.gz" /\ options.OutputDir = "")
           => \E x \in SuffixShapes, f \in FormatShapes :
                 outName = "/song.tar" \o Text(x) \o "." \o Text(f)

C12_Witness ==
    /\ pc = "encode"
    /\ filePaths[i] = "/song.tar.gz"
    /\ options = CondenseOptions("", "_c", "wav")
    /\ outName = "/song.tar_c.wav"

(***************************************************************************)
(* C13                                                                     *)
(***************************************************************************)
\* the expression as a function of the segment sequence and nothing else
FilterOf(segs) ==
    [aselect |-> [n \in 1..Len(segs) |->
                     [fn |-> "between",
                      lo |-> FormatF2(segs[n].SpeechStartAt),
                      loMinus |-> segs[n].SpeechStartAt < 0,
                      hi |-> FormatF2(segs[n].SpeechEndAt),
                      hiMinus |-> segs[n].SpeechEndAt < 0]],
     join |-> "+", chain |-> "asetpts=N/SR/TB"]

\* C13: filter compilation is deterministic: whenever an expression is in
\* hand, up to the return of the encoder, it is the value at the job's
\* segment sequence of one fixed function of that sequence alone, so equal
\* segment sequences give equal expressions whatever the input path, the
\* options, the job's place in the batch and the outcome of the jobs before
C13_FilterDeterministic ==
    Compiled => af = FilterOf(segments)

C13_Witness ==
    /\ pc = "emit"
    /\ i = 2
    /\ filePaths[1] # filePaths[2]
    /\ options = CondenseOptions("/out", "_c", "wav")
    /\ Called(1, "encode", "err")
    /\ segments = <<Segment(16, 32), Segment(0, 16)>>
    /\ af = FilterOf(segments)
    /\ Called(2, "encode", "ok")

(***************************************************************************)
(* C14                                                                     *)
(***************************************************************************)
\* the external calls of job j, in order
CallsOf(j) == SelectSeq(trace, LAMBDA x : x.kind = "call" /\ x.job = j)

\* how many detectors the calls cs have created, and how many destroyed
Created(cs) ==
    Cardinality({n \in 1..Len(cs) : cs[n].what = "NewDetector" /\ cs[n].res = "ok"})

Destroyed(cs) == Cardinality({n \in 1..Len(cs) : cs[n].what = "Destroy"})

\* the jobs that hold a detector now
Holders == {j \in Jobs : LET cs == CallsOf(j) IN Created(cs) > Destroyed(cs)}

\* C14: at most one detector exists at any moment; it belongs to the job
\* being run and exists only between that job's creation of it in the
\* detecting step and the job's return; on every way out of the job it is
\* gone before the completion event and so before the next job starts; a
\* job whose decode or detector creation failed never has one
C14_OneDetector ==
    LET holders == Holders
    IN  /\ Cardinality(holders) <= 1
        /\ \A j \in holders :
              j = i /\ pc \in {"silence", "detect", "compile", "encode"}
        /\ \A j \in Jobs :
              LET cs == CallsOf(j)
              IN  /\ Created(cs) <= 1
                  /\ Destroyed(cs) <= Created(cs)
                  /\ (\E n \in 1..Len(cs) :
                         cs[n].what \in {"decode", "NewDetector"} /\ cs[n].res = "err")
                        => Created(cs) = 0 /\ Destroyed(cs) = 0
        /\ (sd = "live") <=> (holders # {})
        /\ pc \in {"silence", "detect", "compile", "encode"} => holders = {i}

C14_Witness ==
    /\ i = 3
    /\ pc = "encode"
    /\ Holders = {3}
    /\ Called(1, "decode", "err")
    /\ Called(2, "Detect", "empty")
    /\ Destroyed(CallsOf(2)) = 1

(***************************************************************************)
(* C15                                                                     *)
(***************************************************************************)
AllReturned == \A g \in Goroutines : inv[g].pc = "returned"

\* C15: when two invocations of CondenseWithOptions overlap, after both have
\* returned the process default logger is the one installed before either
\* started, and no invocation has had log output of its own, written outside
\* its detect call, discarded
C15_SuppressionIsLocal ==
    /\ AllReturned => logger = MainLogger
    /\ \A g \in Goroutines : ~inv[g].discarded

(***************************************************************************)
(* C16                                                                     *)
(***************************************************************************)
\* the records of one kind that job j has left, without the job number
Records(j, kind) ==
    LET rs == SelectSeq(trace, LAMBDA x : x.kind = kind /\ x.job = j)
    IN  [n \in 1..Len(rs) |->
            [what |-> rs[n].what, res |-> rs[n].res, text |-> rs[n].text,
             out |-> rs[n].out]]

\* the results the outside world gave job j: decode, NewDetector, Detect, encode
Results(j) == SelectSeq(Records(j, "call"), LAMBDA x : x.what # "Destroy")

\* the callbacks job j was called with
PassedNil(j, which) ==
    \E n \in 1..Len(trace) :
        /\ trace[n].kind = "invoke" /\ trace[n].job = j
        /\ IF which = "status" THEN trace[n].res = "nil" ELSE trace[n].out = "nil"

Notified(j, which) ==
    \E n \in 1..Len(trace) :
        /\ trace[n].kind = "event" /\ trace[n].job = j
        /\ (which = "progress") <=> (trace[n].what = "progress")

\* C16: nil callbacks change nothing but the notifications: two calls on the
\* same input that get the same decode, detector and encode results make the
\* same external calls in the same order and return the same error or nil,
\* whatever callbacks each was given; a nil callback is never invoked, and a
\* call given nil receives no notification of that kind
C16_NilCallbacksAreSafe ==
    /\ \A j, k \in Finished :
          (filePaths[j] = filePaths[k] /\ Results(j) = Results(k))
             => /\ Records(j, "call") = Records(k, "call")
                /\ Records(j, "return") = Records(k, "return")
    /\ \A n \in 1..Len(trace) : trace[n].res # "panic"
    /\ \A j \in Jobs :
          /\ PassedNil(j, "status") => ~Notified(j, "status")
          /\ PassedNil(j, "progress") => ~Notified(j, "progress")
    /\ \A j \in Finished : Len(Records(j, "return")) = 1

C16_Witness ==
    /\ pc = "returned"
    /\ Len(filePaths) = 2
    /\ filePaths[1] = filePaths[2]
    /\ PassedNil(1, "status") /\ PassedNil(1, "progress")
    /\ ~PassedNil(2, "status") /\ ~PassedNil(2, "progress")
    /\ Results(1) = Results(2)
    /\ Called(1, "encode", "ok")
    /\ Records(1, "event") = <<>>
    /\ Len(Records(2, "event")) = 4
    /\ Records(1, "return") = Records(2, "return")

(***************************************************************************)
(* C17                                                                     *)
(***************************************************************************)
\* the external calls of job j in order, the detector's release left out
Work(j) ==
    SelectSeq(trace, LAMBDA x : x.kind = "call" /\ x.job = j /\ x.what # "Destroy")

\* C17: no external call is retried or overlapped: the calls of a job are a
\* prefix of decode, NewDetector, Detect, encode, each made once and each
\* after the one before it returned success (encode after a non-empty
\* detector result); the calls and events of the batch come one job after
\* the other, and only the job being run makes calls
C17_NoRetryNoOverlap ==
    /\ \A j \in Jobs :
          LET w == Work(j)
          IN  /\ IsPrefix([n \in 1..Len(w) |-> w[n].what],
                          <<"decode", "NewDetector", "Detect", "encode">>)
              /\ \A n \in 1..(Len(w) - 1) : w[n].res = "ok"
              /\ j > i => w = <<>>
    /\ \A n \in 1..(Len(trace) - 1) : trace[n].job <= trace[n + 1].job

C17_Witness ==
    /\ pc = "emit"
    /\ i = 2
    /\ Len(Work(1)) = 4
    /\ Called(1, "encode", "err")
    /\ Len(Work(2)) = 3
    /\ Called(2, "Detect", "empty")

(***************************************************************************)
(* C18                                                                     *)
(***************************************************************************)
\* the events and calls of job j, in order
HistoryOf(j) == SelectSeq(trace, LAMBDA x : x.job = j)

\* an event with status st stands before place n of the history h
EventBefore(h, st, n) ==
    \E m \in 1..(n - 1) : h[m].kind = "event" /\ h[m].what = st

\* the status whose event announces each call
StageOf(name) ==
    IF name = "decode" THEN "loading"
    ELSE IF name = "encode" THEN "exporting"
    ELSE "detecting"

\* C18: each stage's event is delivered before the stage's work: loading
\* before decode, detecting before the detector is created or run,
\* exporting before encode; and no call of a job comes after the job's
\* completed or error event
C18_EventBeforeWork ==
    \A j \in Jobs :
        LET h == HistoryOf(j)
        IN  \A n \in 1..Len(h) :
                h[n].kind = "call" =>
                    /\ EventBefore(h, "pending", n)
                    /\ h[n].what # "Destroy"
                          => EventBefore(h, StageOf(h[n].what), n)
                    /\ ~EventBefore(h, "completed", n)
                    /\ ~EventBefore(h, "error", n)

C18_Witness ==
    /\ pc = "range"
    /\ i = 2
    /\ Called(1, "encode", "ok")
    /\ Made(1, "Destroy")
    /\ Len(trace) = 10
    /\ trace[10].what = "completed"
    /\ trace[9].what = "Destroy"
    /\ trace[7].what = "exporting" /\ trace[8].what = "encode"

(***************************************************************************)
(* C19                                                                     *)
(***************************************************************************)
\* C19: in a sequential run the default logger is replaced only while the
\* detect call runs, and is the logger of the call's start again on every
\* return of CondenseWithOptions: after a failed decode, a failed detector
\* creation, a detection error, an empty result, a failed or a good encode
C19_LoggerRestored ==
    /\ pc # "detect" => logger = MainLogger
    /\ pc = "detect" => logger = DiscardLogger /\ originalDefault = MainLogger
    /\ pc = "emit" => logger = MainLogger

C19_Witness ==
    /\ pc = "emit"
    /\ i = 2
    /\ Called(2, "Detect", "err")
    /\ Called(1, "encode", "ok")
    /\ logger = MainLogger
    /\ originalDefault = MainLogger

(***************************************************************************)
(* C20.  A boundary of b hundredths of a second lies within a buffer of    *)
(* samples samples at 16000 per second when 160 * b <= samples.            *)
(***************************************************************************)
\* C20: every boundary written into the expression lies on the buffer's
\* timeline, start >= 0 and end <= sample count / 16000, whatever the
\* detector returned
C20_BoundariesClamped ==
    Compiled =>
        \A n \in 1..Len(af.aselect) :
            /\ af.aselect[n].lo >= 0
            /\ (sampleRate \div 100) * af.aselect[n].hi <= samples

(***************************************************************************)
(* C21.  A tick is 25/64 hundredths of a second, so a boundary of b        *)
(* hundredths is less than 10 ms from tick k when |64b - 25k| < 64; a time *)
(* of t ms is less than 10 ms from tick k when |32t - 125k| < 320.         *)
(***************************************************************************)
Abs(x) == IF x < 0 THEN 0 - x ELSE x

\* C21: boundaries are written with two decimals: every written start and
\* end is a whole number of hundredths of a second, a multiple of 10 ms,
\* less than 10 ms from the detector's value; so a frame that the written
\* interval keeps and the detector's interval does not, or the other way
\* round, lies less than 10 ms from the detector's start or end
C21_TenMillisecondGrid ==
    Compiled =>
        \A n \in 1..Len(segments) :
            LET term == af.aselect[n]
                seg  == segments[n]
            IN  /\ term.lo \in Int /\ term.hi \in Int
                /\ (10 * term.lo) % 10 = 0 /\ (10 * term.hi) % 10 = 0
                /\ Abs(64 * term.lo - 25 * seg.SpeechStartAt) < 64
                /\ Abs(64 * term.hi - 25 * seg.SpeechEndAt) < 64
                /\ \A t \in FrameTimes :
                      ((between(t, term.lo, term.hi) = 1)
                          # (125 * seg.SpeechStartAt <= 32 * t
                               /\ 32 * t <= 125 * seg.SpeechEndAt))
                         => \/ Abs(32 * t - 125 * seg.SpeechStartAt) < 320
                            \/ Abs(32 * t - 125 * seg.SpeechEndAt) < 320

\* 0.0625 s is written 0.06 and 0.125 s is written 0.12: the frame at 125 ms
\* is lost, the frame at 60 ms is gained
C21_Witness ==
    /\ Compiled
    /\ segments = <<Segment(16, 32)>>
    /\ af.aselect[1].lo = 6
    /\ af.aselect[1].hi = 12
    /\ between(125, af.aselect[1].lo, af.aselect[1].hi) = 0
    /\ between(60, af.aselect[1].lo, af.aselect[1].hi) = 1

(***************************************************************************)
(* C22                                                                     *)
(***************************************************************************)
\* CondenseWithOptions has been called for input j
Attempted(j) ==
    \E n \in 1..Len(trace) : trace[n].kind = "invoke" /\ trace[n].job = j

\* C22: in the command-line loop a failing file does not abort the batch:
\* once the loop has begun, the program does not end before every input has
\* been attempted, also after an error for one of them
C22_EveryInputAttempted ==
    (pc \in {"returned", "exited"} /\ \E j \in Jobs : Attempted(j))
        => \A j \in Jobs : Attempted(j)

(***************************************************************************)
(* C23                                                                     *)
(***************************************************************************)
\* no entry leaves the list in this step: the entries there stay in place
NothingRemoved ==
    /\ Len(ui'.state.files) >= Len(ui.state.files)
    /\ \A n \in 1..Len(ui.state.files) :
          ui'.state.files[n].path = ui.state.files[n].path

\* C23: from the frontend at most one batch is in progress at any time:
\* while a CondenseFiles call has not resolved no second one is started,
\* whatever the order of clicks, dialogs, events and renders, and no step
\* clears the file list or takes an entry out of it
C23_OneBatchAtATime ==
    /\ [](ui.calls <= 1)
    /\ [](ui.calls > 0 => ui.view.isProcessing /\ ui.state.isProcessing)
    /\ [][ui.calls > 0 => NothingRemoved]_vars

\* a batch is running, a file dialog opened before it has returned a path
\* the list already held, and an event of the batch has arrived
C23_Witness ==
    /\ ui.calls = 1
    /\ ui.view.isProcessing
    /\ Len(ui.state.files) = 2
    /\ ui.state.files[1].path = ui.state.files[2].path
    /\ ui.state.files[1].status = "completed"
    /\ Len(ui.view.files) = 1

(***************************************************************************)
(* C24                                                                     *)
(***************************************************************************)
\* C24: whenever outputSuffix is not empty, the destination the export step
\* is about to write differs from the input path of the job
C24_DestinationNotInput ==
    (pc = "encode" /\ options.OutputSuffix # "") => outName # filePaths[i]

(***************************************************************************)
(* C25                                                                     *)
(***************************************************************************)
\* the destination CondenseWithOptions resolved for job j of the batch
DestinationOf(j) ==
    resolveOutName(filePaths[j], options.OutputDir, options.OutputSuffix,
                   options.OutputFormat)

\* C25: the destination the export step is about to write is not the
\* destination an earlier job of the batch with another input path has
\* exported to
C25_DistinctDestinations ==
    pc = "encode" =>
        \A j \in 1..(i - 1) :
            (Called(j, "encode", "ok") /\ filePaths[j] # filePaths[i])
                => outName # DestinationOf(j)

====
